---- MODULE Spec2Model ----
(***************************************************************************)
(* Wikipedia Edit War Analyzer: the analysis pipeline                      *)
(*   fetch_revision_history -> process_revisions -> compute_summary        *)
(*   -> compute_controversy_score                                          *)
(* as driven by app.py (Streamlit) and by _smoke_test.py.                  *)
(*                                                                         *)
(* Strings are Python strings.  An instant is a whole number of ticks,     *)
(* TicksPerDay ticks to the UTC calendar day.  A JSON object is a function *)
(* whose DOMAIN is the set of keys present.  Real numbers are fixed-point  *)
(* integers: a normalised component is a fraction of NormScale, a score    *)
(* is a number of tenths (score 25.0 is 250).                              *)
(***************************************************************************)
EXTENDS Integers, Sequences, FiniteSets, TLC

\* ---------------------------------------------------------------- bounds
\* config.py:11 sets REVISIONS_PER_REQUEST = 500 and config.py:14 sets
\* MAX_REVISIONS = 5000; the model scales both down, keeping
\* REVISIONS_PER_REQUEST < MAX_REVISIONS < 2 * REVISIONS_PER_REQUEST so that
\* the cap is crossed in the middle of a page.
REVISIONS_PER_REQUEST == 2
MAX_REVISIONS == 3
\* the upstream answers at most MaxRequests page requests of one fetch
MaxRequests == 3
\* ticks to the calendar day
TicksPerDay == 2

\* ---------------------------------------------------------------- strings
UpperChars == "ABCDEFGHIJKLMNOPQRSTUVWXYZ"
LowerChars == "abcdefghijklmnopqrstuvwxyz"
Digits == "0123456789"

CharAt(s, i) == SubSeq(s, i, i)

\* index of the one-character string c in s, 0 when absent
IndexOf(c, s) ==
    IF \E i \in 1..Len(s) : CharAt(s, i) = c
    THEN CHOOSE i \in 1..Len(s) : CharAt(s, i) = c
    ELSE 0

LowerChar(c) ==
    LET i == IndexOf(c, UpperChars) IN IF i = 0 THEN c ELSE CharAt(LowerChars, i)

RECURSIVE Lower(_)
\* str.lower()
Lower(s) == IF s = "" THEN "" ELSE LowerChar(CharAt(s, 1)) \o Lower(SubSeq(s, 2, Len(s)))

IsSpace(c) == c \in {" ", "\t", "\n"}

RECURSIVE LStrip(_)
LStrip(s) == IF s # "" /\ IsSpace(CharAt(s, 1)) THEN LStrip(SubSeq(s, 2, Len(s))) ELSE s

RECURSIVE RStrip(_)
RStrip(s) ==
    IF s # "" /\ IsSpace(CharAt(s, Len(s))) THEN RStrip(SubSeq(s, 1, Len(s) - 1)) ELSE s

\* str.strip()
Strip(s) == RStrip(LStrip(s))

\* kw in s
Contains(s, kw) ==
    \E i \in 1..(Len(s) - Len(kw) + 1) : SubSeq(s, i, i + Len(kw) - 1) = kw

\* ---------------------------------------------------------------- upstream
\* continuation tokens the revision source hands out; NoToken: none returned
NoToken == "None"
Tokens == {"c1", "c2"}

\* revision objects the revision source may deliver (formatversion=2 JSON);
\* user, comment, size and timestamp are absent on suppressed revisions
WireRevisions ==
    { [revid |-> 1, timestamp |-> 0, user |-> "ClueBot",
       comment |-> "Reverted edits by X (vandalism)", size |-> 10],
      [revid |-> 2, timestamp |-> 1, user |-> "Robotics_Fan",
       comment |-> "fix typo", size |-> 12],
      [revid |-> 3, timestamp |-> 1, user |-> "Citation bot", size |-> 7],
      [revid |-> 4, timestamp |-> 5, comment |-> "Undid revision 7: POV dispute"],
      [revid |-> 5, user |-> "ClueBot", comment |-> "rv", size |-> 3] }

\* the sequences of at most n elements of S
RECURSIVE SeqsUpTo(_, _)
SeqsUpTo(S, n) ==
    IF n = 0 THEN {<<>>}
    ELSE LET shorter == SeqsUpTo(S, n - 1)
         IN shorter \cup {Append(s, x) : s \in {t \in shorter : Len(t) = n - 1}, x \in S}

Range(f) == {f[i] : i \in DOMAIN f}

NoRepeat(s) == \A i, j \in 1..Len(s) : s[i] = s[j] => i = j

\* one page of revisions: at most rvlimit = REVISIONS_PER_REQUEST of them, in
\* any order, no revision twice
Pages == {s \in SeqsUpTo(WireRevisions, REVISIONS_PER_REQUEST) : NoRepeat(s)}

\* application-level error objects of the revision source
ErrorPayloads ==
    { [code |-> "maxlag", info |-> "Waiting for a database server"],
      [info |-> "Unrecognized value"],
      [code |-> "readapidenied"] }

TransportFailures == {"ConnectionError", "Timeout", "HTTPError"}

\* titles typed into the text box
Titles == {"", "  ", "Flat Earth", " Homeopathy "}

\* ---------------------------------------------------------------- state
VARIABLES
    caller,          \* "app" (app.py) or "smoke" (_smoke_test.py)
    pc,              \* control point of the analysis request
    title,           \* article_title
    params,          \* request parameters of the fetch: titles, rvcontinue
    continue_token,  \* fetch_revision_history: continue_token
    all_revisions,   \* fetch_revision_history: all_revisions
    requests,        \* page requests issued by the current fetch
    received,        \* revisions the responses of the current fetch delivered
    delays,          \* time.sleep(RATE_LIMIT_DELAY) calls of the current fetch
    upstream,        \* what the revision source does: the page requests it
                     \* answers per fetch, whether it sends pages that carry
                     \* a continuation token and no revision, and the
                     \* revisions it holds of the article
    parked,          \* the variables above and below of a second analysis
                     \* request, while its thread is not the one running
    exc,             \* the exception the fetch raised, NoExc when none
    raw_df,          \* what fetch_revision_history returned
    df,              \* what process_revisions returned
    summary,         \* what compute_summary returned
    score_result,    \* what compute_controversy_score returned
    ui,              \* what the caller shows
    stages           \* the stages of this request, in the order they started

fetchVars == <<params, continue_token, all_revisions, requests, received, delays>>
dataVars == <<df, summary, score_result>>
wikiVars == <<caller, pc, title, params, continue_token, all_revisions, requests, received,
              delays, upstream, parked, exc, raw_df, df, summary, score_result, ui, stages>>

\* the job agent (job-agent/agent.py)
VARIABLES
    agent_pc,              \* control point of run_agent
    agent_runs,            \* runs of the agent started so far
    dry_run,               \* run_agent: dry_run
    max_arg,               \* run_agent: max_apps, <<>> for None, <<n>> for --max n
    max_count,             \* run_agent: max_count
    jobs_queue,            \* the content of jobs_queue.json
    applications,          \* the rows of applications.csv
    ready_jobs,            \* phase_3_apply: ready_jobs, as indices of jobs_queue
    applied_this_session,  \* phase_3_apply: applied_this_session
    filled,                \* the jobs fill_and_submit was invoked for, in order
    trace                  \* what the current run did so far, in order

jobVars == <<agent_pc, agent_runs, dry_run, max_arg, max_count, jobs_queue, applications,
             ready_jobs, applied_this_session, filled, trace>>

\* the query analyzer (database-query-analyzer/backend)
VARIABLES
    engines,        \* database.py: engines, the cache of engines by profile
    created,        \* the profiles create_engine ran for, in order; the
                    \* engine of the i-th run is engine i
    handlers,       \* the request each worker thread is serving
    query_history,  \* the rows of the query_history table
    served          \* requests received so far

dbVars == <<engines, created, handlers, query_history, served>>
vars == <<wikiVars, jobVars, dbVars>>

\* no run yet: applications.csv holds its header only, there is no queue file
JobAgentInit ==
    /\ agent_pc = "idle"
    /\ agent_runs = 0
    /\ dry_run = FALSE
    /\ max_arg = <<>>
    /\ max_count = 0
    /\ jobs_queue = <<>>
    /\ applications = <<>>
    /\ ready_jobs = <<>>
    /\ applied_this_session = 0
    /\ filled = <<>>
    /\ trace = <<>>

\* the worker threads of the API server
Handlers == {"h1", "h2"}

\* a worker thread that serves no request
IdleHandler ==
    [pc |-> "idle", endpoint |-> "none", profile |-> "", query |-> "", request |-> 0,
     engine |-> 0, session |-> "none", pending |-> FALSE, rolled_back |-> FALSE,
     status |-> 0]

\* the server has started: engines = {}, no request yet, an empty table
AnalyzerInit ==
    /\ engines = <<>>
    /\ created = <<>>
    /\ handlers = [h \in Handlers |-> IdleHandler]
    /\ query_history = <<>>
    /\ served = 0

NoExc == [type |-> "None", site |-> "None", msg |-> ""]
NoParams == [titles |-> "", rvcontinue |-> NoToken]
NoResult == [score |-> 0, revert_score |-> 0, editor_score |-> 0, spike_score |-> 0,
             label |-> "None"]
EmptySummary == <<>>

\* a revision source that answers MaxRequests page requests of a fetch and
\* may send pages that carry a continuation token and no revision
Upstream == [max_requests |-> MaxRequests, empty_pages |-> TRUE, pool |-> WireRevisions]

\* an analysis request that has not started, against the revision source src
IdleRequest(src) ==
    [caller |-> "app", pc |-> "idle", title |-> "", params |-> NoParams,
     continue_token |-> NoToken, all_revisions |-> <<>>, requests |-> 0, received |-> 0,
     delays |-> 0, upstream |-> src, exc |-> NoExc, raw_df |-> <<>>, df |-> <<>>,
     summary |-> EmptySummary, score_result |-> NoResult, ui |-> "", stages |-> <<>>]

\* the analysis request whose thread is running
RequestState ==
    [caller |-> caller, pc |-> pc, title |-> title, params |-> params,
     continue_token |-> continue_token, all_revisions |-> all_revisions,
     requests |-> requests, received |-> received, delays |-> delays,
     upstream |-> upstream, exc |-> exc, raw_df |-> raw_df, df |-> df,
     summary |-> summary, score_result |-> score_result, ui |-> ui, stages |-> stages]

Init ==
    /\ caller = "app"
    /\ pc = "idle"
    /\ title = ""
    /\ params = NoParams
    /\ continue_token = NoToken
    /\ all_revisions = <<>>
    /\ requests = 0
    /\ received = 0
    /\ delays = 0
    /\ upstream = Upstream
    /\ parked = IdleRequest(Upstream)
    /\ exc = NoExc
    /\ raw_df = <<>>
    /\ df = <<>>
    /\ summary = EmptySummary
    /\ score_result = NoResult
    /\ ui = ""
    /\ stages = <<>>
    /\ JobAgentInit
    /\ AnalyzerInit

\* ---------------------------------------------------------------- fetch
REQUEST_TIMEOUT == 30

\* faulty variant: the missing page raises the class of the API errors
ExcTypeAt_missing_runtime(site) ==
    IF site = "empty_title" THEN "ValueError" ELSE "RuntimeError"

\* the exception class raised at each raise statement of fetch_revision_history
ExcTypeAt(site) ==
    CASE site = "empty_title"     -> "ValueError"
      [] site = "ConnectionError" -> "RuntimeError"
      [] site = "Timeout"         -> "RuntimeError"
      [] site = "HTTPError"       -> "RuntimeError"
      [] site = "api_error"       -> "RuntimeError"
      [] site = "missing"         -> "ValueError"

\* the message of the exception raised for a transport failure
TransportMessage(kind) ==
    CASE kind = "ConnectionError" ->
            "Cannot reach Wikipedia API. Check your internet connection."
      [] kind = "Timeout" ->
            "Wikipedia API timed out after " \o ToString(REQUEST_TIMEOUT) \o "s."
      [] kind = "HTTPError" ->
            "HTTP error from Wikipedia API: 503 Server Error"

\* the message of the exception raised for data["error"]
ApiErrorMessage(err) ==
    LET code == IF "code" \in DOMAIN err THEN err.code ELSE "unknown"
        info == IF "info" \in DOMAIN err THEN err.info ELSE ""
    IN "Wikipedia API error [" \o code \o "]: " \o info

NotFoundMessage(t) == "Article '" \o t \o "' was not found on Wikipedia."

Exception(site, msg) == [type |-> ExcTypeAt(site), site |-> site, msg |-> msg]

\* faulty variant: the title is checked without strip()
TitleIsEmpty_no_strip(t) == t = ""

\* if not article_title or not article_title.strip()
TitleIsEmpty(t) == t = "" \/ Strip(t) = ""

\* one row of the returned frame: absent user, comment, size filled in
NormaliseRow(r) ==
    [revid     |-> r.revid,
     timestamp |-> r.timestamp,
     user      |-> IF "user" \in DOMAIN r THEN r.user ELSE "Unknown",
     comment   |-> IF "comment" \in DOMAIN r THEN r.comment ELSE "",
     size      |-> IF "size" \in DOMAIN r THEN r.size ELSE 0]

\* df.dropna(subset=["timestamp"]): a revision whose timestamp is absent or
\* does not parse has timestamp NaT and is dropped
RECURSIVE DropNaT(_)
DropNaT(revs) ==
    IF revs = <<>> THEN <<>>
    ELSE LET r == Head(revs)
         IN IF "timestamp" \in DOMAIN r
            THEN <<NormaliseRow(r)>> \o DropNaT(Tail(revs))
            ELSE DropNaT(Tail(revs))

IsSortedByTimestamp(rows) ==
    \A i \in 1..(Len(rows) - 1) : rows[i].timestamp <= rows[i + 1].timestamp

IndexOrders(n) == {p \in [1..n -> 1..n] : \A i, j \in 1..n : p[i] = p[j] => i = j}

\* faulty variant: the frame is returned in the order of arrival
SortValues_unsorted(rows) == {rows}

\* df.sort_values("timestamp").reset_index(drop=True): the default sort
\* (quicksort) is not stable, rows of equal timestamp come out in any order
SortValues(rows) ==
    {s \in {[i \in 1..Len(rows) |-> rows[p[i]]] : p \in IndexOrders(Len(rows))} :
        IsSortedByTimestamp(s)}

\* the frames the code after the pagination loop can return for all_revisions
DataFrames(revs) == SortValues(DropNaT(revs))

\* faulty variant: the cap is never tested
CapReached_never(revs) == FALSE

\* MAX_REVISIONS and len(all_revisions) >= MAX_REVISIONS
CapReached(revs) == MAX_REVISIONS # 0 /\ Len(revs) >= MAX_REVISIONS

\* faulty variant: the loop is left at the cap without cutting the list
Truncate_none(revs) == revs

\* all_revisions[:MAX_REVISIONS]
Truncate(revs) == SubSeq(revs, 1, IF Len(revs) < MAX_REVISIONS THEN Len(revs) ELSE MAX_REVISIONS)

\* what the caller does with an exception of the fetch: app.py shows an error
\* and stops the script run, _smoke_test.py has no handler
CallerShows(c, e) ==
    IF c = "app"
    THEN IF e.type = "ValueError" THEN "Input error: " \o e.msg
         ELSE "API error: " \o e.msg
    ELSE "Traceback: " \o e.type \o ": " \o e.msg

\* faulty variant: the handler shows the error and does not stop the run
CallerPcOnError_no_stop(c) == "fetched"

CallerPcOnError(c) == IF c = "app" THEN "stopped" ELSE "crashed"

Raise(c, e) ==
    /\ exc' = e
    /\ pc' = CallerPcOnError(c)
    /\ ui' = CallerShows(c, e)

\* faulty variant: the list is a module-level one that the calls share
NewList_module_level(other) == other

\* all_revisions = []: a list of this call, whatever list another call holds
NewList(other) == <<>>

\* the caller calls fetch_revision_history(t): the title check, then the
\* set-up of params, all_revisions and continue_token
CallFetch(c, t) ==
    /\ caller' = c
    /\ title' = t
    /\ stages' = <<"fetch">>
    /\ requests' = 0
    /\ received' = 0
    /\ delays' = 0
    /\ all_revisions' = NewList(parked.all_revisions)
    /\ continue_token' = NoToken
    /\ UNCHANGED <<raw_df, dataVars>>
    /\ IF TitleIsEmpty(t)
       THEN /\ Raise(c, Exception("empty_title", "Article title cannot be empty."))
            /\ params' = NoParams
       ELSE /\ params' = [titles |-> Strip(t), rvcontinue |-> NoToken]
            /\ pc' = "request"
            /\ UNCHANGED <<exc, ui>>

\* app.py: the Analyze button is clicked with the text box holding t
AppAnalyze(t) ==
    /\ pc = "idle"
    /\ t # ""
    /\ CallFetch("app", t)
    /\ UNCHANGED <<upstream, parked, jobVars, dbVars>>

\* app.py: the button is clicked with an empty text box
AppNoTitle ==
    /\ pc = "idle"
    /\ caller' = "app"
    /\ title' = ""
    /\ pc' = "stopped"
    /\ ui' = "Please enter an article title before clicking Analyze."
    /\ UNCHANGED <<fetchVars, exc, raw_df, dataVars, stages>>
    /\ UNCHANGED <<upstream, parked, jobVars, dbVars>>

\* _smoke_test.py is run
SmokeStart ==
    /\ pc = "idle"
    /\ CallFetch("smoke", "Flat Earth")
    /\ UNCHANGED <<upstream, parked, jobVars, dbVars>>

\* if continue_token: params["rvcontinue"] = continue_token
AttachToken(p, token) ==
    IF token # NoToken THEN [p EXCEPT !.rvcontinue = token] ELSE p

\* the request of the loop's next iteration, sent with the token attached
SendRequest ==
    /\ pc = "request"
    /\ requests < upstream.max_requests
    /\ requests' = requests + 1
    /\ params' = AttachToken(params, continue_token)

\* the code after the loop: build, normalise and sort the frame, return it
FetchReturn(revs) ==
    /\ \E f \in DataFrames(revs) : raw_df' = f
    /\ pc' = "fetched"
    /\ UNCHANGED <<exc, ui>>

\* faulty variant: a failed page request leaves the loop and the pages fetched so
\* far are returned
FailFetch_partial(e) ==
    /\ exc' = e
    /\ \E f \in DataFrames(all_revisions) : raw_df' = f
    /\ pc' = "fetched"
    /\ UNCHANGED <<continue_token, all_revisions, received, delays, ui>>

\* what a failed page request leaves of the fetch
FailFetch(e) ==
    /\ Raise(caller, e)
    /\ UNCHANGED <<continue_token, all_revisions, received, delays, raw_df>>

\* session.get or raise_for_status raises
PageTransportFailure(kind) ==
    /\ SendRequest
    /\ FailFetch(Exception(kind, TransportMessage(kind)))
    /\ UNCHANGED <<caller, title, dataVars, stages>>
    /\ UNCHANGED <<upstream, parked, jobVars, dbVars>>

\* the response carries an "error" object
PageApiError(err) ==
    /\ SendRequest
    /\ FailFetch(Exception("api_error", ApiErrorMessage(err)))
    /\ UNCHANGED <<caller, title, dataVars, stages>>
    /\ UNCHANGED <<upstream, parked, jobVars, dbVars>>

\* the response's page is flagged missing
PageMissing ==
    /\ SendRequest
    /\ FailFetch(Exception("missing", NotFoundMessage(title)))
    /\ UNCHANGED <<caller, title, dataVars, stages>>
    /\ UNCHANGED <<upstream, parked, jobVars, dbVars>>

\* the response has no query.pages: the loop is left
PageNoPages ==
    /\ SendRequest
    /\ FetchReturn(all_revisions)
    /\ UNCHANGED <<caller, title, continue_token, all_revisions, received, delays, dataVars,
                   stages>>
    /\ UNCHANGED <<upstream, parked, jobVars, dbVars>>

\* faulty variant: the delay is taken before the loop tests whether to go on
Sleeps_every_page(capped, tok) == TRUE

\* time.sleep(RATE_LIMIT_DELAY) is the last statement of the loop body, after
\* the break at the cap and the break on a missing token
Sleeps(capped, tok) == ~capped /\ tok # NoToken

\* the response carries the revisions revs and the continuation token tok;
\* the revision source delivers each revision of an item once
PageRevisions(revs, tok) ==
    /\ SendRequest
    /\ Range(revs) \subseteq upstream.pool
    /\ Range(revs) \cap Range(all_revisions) = {}
    /\ tok # NoToken => requests + 1 < upstream.max_requests
    /\ (tok # NoToken /\ revs = <<>>) => upstream.empty_pages
    /\ received' = received + Len(revs)
    /\ LET acc == all_revisions \o revs
       IN delays' = IF Sleeps(CapReached(acc), tok) THEN delays + 1 ELSE delays
    /\ LET acc == all_revisions \o revs
       IN IF CapReached(acc)
          THEN /\ all_revisions' = Truncate(acc)
               /\ FetchReturn(Truncate(acc))
               /\ UNCHANGED continue_token
          ELSE /\ all_revisions' = acc
               /\ continue_token' = tok
               /\ IF tok = NoToken
                  THEN FetchReturn(acc)
                  ELSE /\ pc' = "request"
                       /\ UNCHANGED <<exc, ui, raw_df>>
    /\ UNCHANGED <<caller, title, dataVars, stages>>
    /\ UNCHANGED <<upstream, parked, jobVars, dbVars>>

\* ---------------------------------------------------------------- enrich
REVERT_KEYWORDS ==
    <<"revert", "reverted", "rv", "undo", "undid", "vandalism", "vandal",
      "restore", "restored", "rollback", "reverts">>

CONFLICT_KEYWORDS ==
    [hostility   |-> <<"attack", "abuse", "harassment", "insult", "inappropriate">>,
     dispute     |-> <<"dispute", "disagree", "incorrect", "wrong", "false",
                       "inaccurate", "misleading", "biased", "bias", "pov",
                       "neutral", "neutrality">>,
     revert_lang |-> REVERT_KEYWORDS,
     protection  |-> <<"protected", "semi-protected", "fully protected",
                       "edit request">>]

SPIKE_MULTIPLIER == 3

\* faulty variant: the comment is matched as written, not lowercased
comment_contains_cased(comment, keywords) ==
    IF comment = "" THEN FALSE
    ELSE \E kw \in Range(keywords) : Contains(comment, kw)

comment_contains(comment, keywords) ==
    IF comment = "" THEN FALSE
    ELSE LET comment_lower == Lower(comment)
         IN \E kw \in Range(keywords) : Contains(comment_lower, kw)

\* df[col] = values, one per row
WithColumn(d, col, values) == [i \in 1..Len(d) |-> d[i] @@ (col :> values[i])]

detect_reverts(d) ==
    WithColumn(d, "is_revert",
               [i \in 1..Len(d) |-> comment_contains(d[i].comment, REVERT_KEYWORDS)])

\* \w of the regular expression, on a lowercased string
IsWordChar(c) == Contains(LowerChars, c) \/ Contains(Digits, c) \/ c = "_"

\* \b between position i and position i + 1 of s (0 <= i <= Len(s))
WordBoundary(s, i) ==
    LET before == i >= 1 /\ IsWordChar(CharAt(s, i))
        after == i < Len(s) /\ IsWordChar(CharAt(s, i + 1))
    IN before # after

\* re.search(r"\bbot\b", s)
\* faulty variant: "bot" anywhere in the name
MatchesBot_substring(s) == Contains(s, "bot")

MatchesBot(s) ==
    \E i \in 1..(Len(s) - 2) :
        /\ SubSeq(s, i, i + 2) = "bot"
        /\ WordBoundary(s, i - 1)
        /\ WordBoundary(s, i + 2)

detect_bots(d) ==
    WithColumn(d, "is_bot", [i \in 1..Len(d) |-> MatchesBot(Lower(d[i].user))])

\* timestamp.dt.date
DateOf(ts) == ts \div TicksPerDay

\* spike_dates: the dates whose count is >= mean_daily * SPIKE_MULTIPLIER,
\* mean_daily the mean of the counts of the dates that have revisions
SpikeDates(d) ==
    LET dates == {DateOf(d[i].timestamp) : i \in 1..Len(d)}
        daily_count(dt) == Cardinality({i \in 1..Len(d) : DateOf(d[i].timestamp) = dt})
    IN {dt \in dates : daily_count(dt) * Cardinality(dates) >= Len(d) * SPIKE_MULTIPLIER}

detect_spikes(d) ==
    LET spike_dates == SpikeDates(d)
    IN WithColumn(d, "is_spike_day",
                  [i \in 1..Len(d) |-> DateOf(d[i].timestamp) \in spike_dates])

nlp_conflict_flags(d) ==
    LET flag(i, category) == comment_contains(d[i].comment, CONFLICT_KEYWORDS[category])
    IN [i \in 1..Len(d) |->
          d[i] @@ [nlp_hostility    |-> flag(i, "hostility"),
                   nlp_dispute      |-> flag(i, "dispute"),
                   nlp_revert_lang  |-> flag(i, "revert_lang"),
                   nlp_protection   |-> flag(i, "protection"),
                   nlp_any_conflict |-> \E c \in DOMAIN CONFLICT_KEYWORDS : flag(i, c)]]

\* faulty variant: diff().dropna() in place of diff().fillna(0)
compute_edit_size_delta_dropna(d) ==
    [i \in 1..(Len(d) - 1) |-> d[i + 1] @@ ("size_delta" :> (d[i + 1].size - d[i].size))]

\* faulty variant: the first revision's delta is its whole size
compute_edit_size_delta_from_zero(d) ==
    WithColumn(d, "size_delta",
               [i \in 1..Len(d) |-> IF i = 1 THEN d[i].size ELSE d[i].size - d[i - 1].size])

\* df["size"].diff().fillna(0)
compute_edit_size_delta(d) ==
    WithColumn(d, "size_delta",
               [i \in 1..Len(d) |-> IF i = 1 THEN 0 ELSE d[i].size - d[i - 1].size])

process_revisions(d) ==
    IF d = <<>> THEN d
    ELSE compute_edit_size_delta(
             nlp_conflict_flags(detect_spikes(detect_bots(detect_reverts(d)))))

\* ---------------------------------------------------------------- aggregate
\* round(n / d): the nearest whole number, a tie to the even one
RoundHalfEven(n, d) ==
    LET q == n \div d
        r == n % d
    IN IF 2 * r > d \/ (2 * r = d /\ q % 2 = 1) THEN q + 1 ELSE q

\* int(df[col].sum()) of a boolean column
ColumnSum(d, col) == Cardinality({i \in 1..Len(d) : d[i][col]})

Min(S) == CHOOSE x \in S : \A y \in S : x <= y
Max(S) == CHOOSE x \in S : \A y \in S : x >= y

\* df.groupby("user").size()
EditsOf(d, u) == Cardinality({i \in 1..Len(d) : d[i].user = u})

\* .sort_values(ascending=False).head(10): the authors by count descending.
\* The default sort kind is quicksort, which is not stable: authors of equal
\* count come out in an order that depends on the sort's implementation.
TopEditorsHead == 10

\* faulty variant: the sort runs ascending
RECURSIVE Rankings_ascending(_, _)
Rankings_ascending(d, users) ==
    IF users = {} THEN {<<>>}
    ELSE LET least == {u \in users : \A v \in users : EditsOf(d, u) <= EditsOf(d, v)}
         IN UNION {{<<u>> \o r : r \in Rankings_ascending(d, users \ {u})} : u \in least}

\* the orders of users the sort can produce
RECURSIVE Rankings(_, _)
Rankings(d, users) ==
    IF users = {} THEN {<<>>}
    ELSE LET most == {u \in users : \A v \in users : EditsOf(d, u) >= EditsOf(d, v)}
         IN UNION {{<<u>> \o r : r \in Rankings(d, users \ {u})} : u \in most}

TopEditors(d) ==
    LET users == {d[i].user : i \in 1..Len(d)}
        n == Cardinality(users)
        keep == IF n < TopEditorsHead THEN n ELSE TopEditorsHead
    IN {[i \in 1..keep |-> <<r[i], EditsOf(d, r[i])>>] : r \in Rankings(d, users)}

\* compute_summary, with top the outcome of the sort of top_editors
SummaryOf(d, top) ==
    IF d = <<>> THEN EmptySummary
    ELSE LET total_edits == Len(d)
             total_reverts == ColumnSum(d, "is_revert")
             total_bots == ColumnSum(d, "is_bot")
             stamps == {d[i].timestamp : i \in 1..Len(d)}
         IN [total_edits    |-> total_edits,
             total_reverts  |-> total_reverts,
             revert_rate    |-> RoundHalfEven(total_reverts * 10000, total_edits),
             total_bots     |-> total_bots,
             total_humans   |-> total_edits - total_bots,
             unique_editors |-> Cardinality({d[i].user : i \in 1..Len(d)}),
             unique_humans  |-> Cardinality({d[i].user : i \in {j \in 1..Len(d) : ~d[j].is_bot}}),
             spike_days     |-> ColumnSum(d, "is_spike_day"),
             nlp_conflicts  |-> ColumnSum(d, "nlp_any_conflict"),
             first_edit     |-> DateOf(Min(stamps)),
             last_edit      |-> DateOf(Max(stamps)),
             top_editors    |-> top]

\* the summaries compute_summary can return for d
compute_summary(d) ==
    IF d = <<>> THEN {EmptySummary} ELSE {SummaryOf(d, top) : top \in TopEditors(d)}

\* ---------------------------------------------------------------- score
\* weights, in hundredths
SCORE_WEIGHT_REVERTS == 40
SCORE_WEIGHT_UNIQUE_EDITORS == 30
SCORE_WEIGHT_SPIKES == 30
SCORE_LOG_BASE == 10
\* saturation ceilings of the three components
RevertCeiling == 30
EditorCeiling == 60
SpikeCeiling == 20

\* fixed-point arithmetic: a logarithm carries FracBits binary digits after
\* the point and is computed on a mantissa of MantBits binary digits; a
\* normalised component is a whole number of NormScale-ths
FracBits == 10
MantBits == 13
NormScale == 1000

RECURSIVE FloorLog2(_, _)
\* the largest k with q * 2^k <= p, for p >= q >= 1
FloorLog2(p, q) == IF p < 2 * q THEN 0 ELSE 1 + FloorLog2(p, 2 * q)

RECURSIVE FracLog2(_, _)
\* the first n binary digits of log2(m / 2^MantBits), 2^MantBits <= m < 2^(MantBits+1),
\* by repeated squaring
FracLog2(m, n) ==
    IF n = 0 THEN 0
    ELSE LET sq == (m * m) \div 2^MantBits
         IN IF sq >= 2^(MantBits + 1)
            THEN 2^(n - 1) + FracLog2(sq \div 2, n - 1)
            ELSE FracLog2(sq, n - 1)

\* log2(p / q) in units of 2^-FracBits, rounded down, for p >= q >= 1
Log2(p, q) ==
    LET k == FloorLog2(p, q)
    IN k * 2^FracBits + FracLog2((p * 2^MantBits) \div (q * 2^k), FracBits)

\* math.log(p / q, base) in units of 2^-FracBits
Log(p, q, base) == (Log2(p, q) * 2^FracBits) \div Log2(base, 1)

Min2(a, b) == IF a <= b THEN a ELSE b
Max2(a, b) == IF a >= b THEN a ELSE b

\* faulty variant: the ratio of the logarithms is not capped at 1.0
log_normalise_uncapped(value, max_value) ==
    IF value[1] <= 0 \/ max_value <= 0 THEN 0
    ELSE (Log(value[1] + value[2], value[2], SCORE_LOG_BASE) * NormScale)
            \div Log(max_value + 1, 1, SCORE_LOG_BASE)

\* faulty variant: a value at or above the ceiling is rejected like a
\* non-positive one
log_normalise_reject_over(value, max_value) ==
    IF value[1] <= 0 \/ max_value <= 0 \/ value[1] >= max_value * value[2] THEN 0
    ELSE LET log_val == Log(value[1] + value[2], value[2], SCORE_LOG_BASE)
             log_max == Log(max_value + 1, 1, SCORE_LOG_BASE)
         IN IF log_max = 0 THEN 0
            ELSE Min2((log_val * NormScale) \div log_max, NormScale)

\* _log_normalise(value, max_value), value the fraction value[1] / value[2];
\* the result in units of 1 / NormScale
log_normalise(value, max_value) ==
    IF value[1] <= 0 \/ max_value <= 0 THEN 0
    ELSE LET log_val == Log(value[1] + value[2], value[2], SCORE_LOG_BASE)
             log_max == Log(max_value + 1, 1, SCORE_LOG_BASE)
         IN IF log_max = 0 THEN 0
            ELSE Min2((log_val * NormScale) \div log_max, NormScale)

\* faulty variant: the tiers are inclusive at their upper edge
Label_upper_inclusive(score) ==
    IF score <= 250 THEN "Low"
    ELSE IF score <= 500 THEN "Medium"
    ELSE IF score <= 750 THEN "High"
    ELSE "Extreme"

\* the label of a score given in tenths
Label(score) ==
    IF score < 250 THEN "Low"
    ELSE IF score < 500 THEN "Medium"
    ELSE IF score < 750 THEN "High"
    ELSE "Extreme"

\* round(norm * 100, 1), in tenths
ComponentScore(norm) == RoundHalfEven(norm * 1000, NormScale)

\* (df["timestamp"].max() - df["timestamp"].min()).days
SpanDays(d) ==
    LET stamps == {d[i].timestamp : i \in 1..Len(d)}
    IN (Max(stamps) - Min(stamps)) \div TicksPerDay

\* faulty variant: the result for no data carries no tier
ZeroScore_unlabelled ==
    [score |-> 0, revert_score |-> 0, editor_score |-> 0, spike_score |-> 0,
     label |-> "None"]

\* the dict returned for no data
ZeroScore ==
    [score |-> 0, revert_score |-> 0, editor_score |-> 0, spike_score |-> 0,
     label |-> "Low"]

compute_controversy_score(d, s) ==
    IF d = <<>> \/ s = EmptySummary
    THEN ZeroScore
    ELSE LET total_edits == s.total_edits
             revert_norm == log_normalise(<<s.total_reverts * 100, Max2(total_edits, 1)>>,
                                          RevertCeiling)
             editor_norm == log_normalise(<<s.unique_editors * 100, Max2(total_edits, 1)>>,
                                          EditorCeiling)
             total_days == Max2(SpanDays(d), 1)
             spike_norm == log_normalise(<<s.spike_days * 100, total_days>>, SpikeCeiling)
             composite == revert_norm * SCORE_WEIGHT_REVERTS
                          + editor_norm * SCORE_WEIGHT_UNIQUE_EDITORS
                          + spike_norm * SCORE_WEIGHT_SPIKES
             score == RoundHalfEven(composite * 10, NormScale)
         IN [score        |-> score,
             revert_score |-> ComponentScore(revert_norm),
             editor_score |-> ComponentScore(editor_norm),
             spike_score  |-> ComponentScore(spike_norm),
             label        |-> Label(score)]

\* ---------------------------------------------------------------- callers
\* app.py: the fetch returned no revision
AppNoRevisions ==
    /\ pc = "fetched"
    /\ caller = "app"
    /\ raw_df = <<>>
    /\ pc' = "stopped"
    /\ ui' = "No revisions found. The article may be brand-new or restricted."
    /\ UNCHANGED <<caller, title, fetchVars, exc, raw_df, dataVars, stages>>
    /\ UNCHANGED <<upstream, parked, jobVars, dbVars>>

\* df = process_revisions(raw_df)
Enrich ==
    /\ pc = "fetched"
    /\ caller = "app" => raw_df # <<>>
    /\ df' = process_revisions(raw_df)
    /\ pc' = "enriched"
    /\ stages' = Append(stages, "enrich")
    /\ UNCHANGED <<caller, title, fetchVars, exc, raw_df, summary, score_result, ui>>
    /\ UNCHANGED <<upstream, parked, jobVars, dbVars>>

\* summary = compute_summary(df)
Aggregate ==
    /\ pc = "enriched"
    /\ \E s \in compute_summary(df) : summary' = s
    /\ pc' = "aggregated"
    /\ stages' = Append(stages, "aggregate")
    /\ UNCHANGED <<caller, title, fetchVars, exc, raw_df, df, score_result, ui>>
    /\ UNCHANGED <<upstream, parked, jobVars, dbVars>>

\* score_result = compute_controversy_score(df, summary)
Score ==
    /\ pc = "aggregated"
    /\ score_result' = compute_controversy_score(df, summary)
    /\ pc' = "scored"
    /\ stages' = Append(stages, "score")
    /\ UNCHANGED <<caller, title, fetchVars, exc, raw_df, df, summary, ui>>
    /\ UNCHANGED <<upstream, parked, jobVars, dbVars>>

\* app.py: the banner, the statistics, the charts and the table
AppRender ==
    /\ pc = "scored"
    /\ caller = "app"
    /\ ui' = "Loaded " \o ToString(summary.total_edits) \o " revisions: "
             \o score_result.label \o " Controversy"
    /\ pc' = "done"
    /\ stages' = Append(stages, "render")
    /\ UNCHANGED <<caller, title, fetchVars, exc, raw_df, dataVars>>
    /\ UNCHANGED <<upstream, parked, jobVars, dbVars>>

\* _smoke_test.py: the four print lines, the first reads summary['total_edits']
SmokePrint ==
    /\ pc = "scored"
    /\ caller = "smoke"
    /\ IF "total_edits" \in DOMAIN summary
       THEN /\ ui' = "Total revisions : " \o ToString(summary.total_edits)
            /\ pc' = "done"
            /\ UNCHANGED exc
       ELSE /\ exc' = [type |-> "KeyError", site |-> "smoke_print", msg |-> "'total_edits'"]
            /\ ui' = "Traceback: KeyError: 'total_edits'"
            /\ pc' = "crashed"
    /\ stages' = Append(stages, "print")
    /\ UNCHANGED <<caller, title, fetchVars, raw_df, dataVars>>
    /\ UNCHANGED <<upstream, parked, jobVars, dbVars>>

\* the script run is over; the next click or run starts from scratch
NewRun ==
    /\ pc \in {"stopped", "crashed", "done"}
    /\ caller' = "app"
    /\ pc' = "idle"
    /\ title' = ""
    /\ params' = NoParams
    /\ continue_token' = NoToken
    /\ all_revisions' = <<>>
    /\ requests' = 0
    /\ received' = 0
    /\ delays' = 0
    /\ exc' = NoExc
    /\ raw_df' = <<>>
    /\ df' = <<>>
    /\ summary' = EmptySummary
    /\ score_result' = NoResult
    /\ ui' = ""
    /\ stages' = <<>>
    /\ UNCHANGED <<upstream, parked, jobVars, dbVars>>

Next ==
    \/ \E t \in Titles : AppAnalyze(t)
    \/ AppNoTitle
    \/ SmokeStart
    \/ \E k \in TransportFailures : PageTransportFailure(k)
    \/ \E e \in ErrorPayloads : PageApiError(e)
    \/ PageMissing
    \/ PageNoPages
    \/ \E revs \in Pages, tok \in Tokens \cup {NoToken} : PageRevisions(revs, tok)
    \/ AppNoRevisions
    \/ Enrich
    \/ Aggregate
    \/ Score
    \/ AppRender
    \/ SmokePrint
    \/ NewRun

Spec == Init /\ [][Next]_vars

\* ---------------------------------------------------------------- fetches
\* The fetch alone, against a revision source that answers more page
\* requests than the cap needs and that either may or may not send pages
\* with a continuation token and no revision.
InitFetch ==
    /\ caller = "app"
    /\ pc = "idle"
    /\ title = ""
    /\ params = NoParams
    /\ continue_token = NoToken
    /\ all_revisions = <<>>
    /\ requests = 0
    /\ received = 0
    /\ delays = 0
    /\ upstream \in [max_requests : {MAX_REVISIONS + 2}, empty_pages : BOOLEAN,
                     pool : {WireRevisions}]
    /\ parked = IdleRequest(Upstream)
    /\ exc = NoExc
    /\ raw_df = <<>>
    /\ df = <<>>
    /\ summary = EmptySummary
    /\ score_result = NoResult
    /\ ui = ""
    /\ stages = <<>>
    /\ JobAgentInit
    /\ AnalyzerInit

NextFetch ==
    \/ \E t \in Titles : AppAnalyze(t)
    \/ SmokeStart
    \/ \E k \in TransportFailures : PageTransportFailure(k)
    \/ \E e \in ErrorPayloads : PageApiError(e)
    \/ PageMissing
    \/ PageNoPages
    \/ \E revs \in Pages, tok \in Tokens \cup {NoToken} : PageRevisions(revs, tok)
    \/ NewRun

SpecFetch == InitFetch /\ [][NextFetch]_vars

\* ---------------------------------------------------------------- two requests
\* Two analysis requests for different titles, each in a thread of its own:
\* the running thread takes the steps of its request, a switch parks it and
\* resumes the other. One article has two revisions at the source, the
\* other has one.
PairRequests == 2

ArticleA == [max_requests |-> PairRequests, empty_pages |-> FALSE,
             pool |-> {r \in WireRevisions : r.revid \in {1, 3}}]
ArticleB == [max_requests |-> PairRequests, empty_pages |-> FALSE,
             pool |-> {r \in WireRevisions : r.revid \in {2}}]

\* the titles the two requests are for
PairTitles == {"Flat Earth", " Homeopathy "}

\* the scheduler suspends the running thread and resumes the other one
Switch ==
    /\ parked' = RequestState
    /\ caller' = parked.caller
    /\ pc' = parked.pc
    /\ title' = parked.title
    /\ params' = parked.params
    /\ continue_token' = parked.continue_token
    /\ all_revisions' = parked.all_revisions
    /\ requests' = parked.requests
    /\ received' = parked.received
    /\ delays' = parked.delays
    /\ upstream' = parked.upstream
    /\ exc' = parked.exc
    /\ raw_df' = parked.raw_df
    /\ df' = parked.df
    /\ summary' = parked.summary
    /\ score_result' = parked.score_result
    /\ ui' = parked.ui
    /\ stages' = parked.stages
    /\ UNCHANGED <<jobVars, dbVars>>

InitPair ==
    /\ caller = "app"
    /\ pc = "idle"
    /\ title = ""
    /\ params = NoParams
    /\ continue_token = NoToken
    /\ all_revisions = <<>>
    /\ requests = 0
    /\ received = 0
    /\ delays = 0
    /\ upstream = ArticleA
    /\ parked = IdleRequest(ArticleB)
    /\ exc = NoExc
    /\ raw_df = <<>>
    /\ df = <<>>
    /\ summary = EmptySummary
    /\ score_result = NoResult
    /\ ui = ""
    /\ stages = <<>>
    /\ JobAgentInit
    /\ AnalyzerInit

NextPair ==
    \/ \E t \in PairTitles : Strip(t) # Strip(parked.title) /\ AppAnalyze(t)
    \/ PageMissing
    \/ \E revs \in Pages, tok \in Tokens \cup {NoToken} : PageRevisions(revs, tok)
    \/ AppNoRevisions
    \/ Enrich
    \/ Aggregate
    \/ Score
    \/ AppRender
    \/ Switch

SpecPair == InitPair /\ [][NextPair]_vars

\* ---------------------------------------------------------------- histories
\* The pipeline run on fetched histories of up to MaxEdits revisions by up
\* to MaxUsers authors: the first r revisions are reverts, the first k fall
\* on one day, each later one on a day of its own, the first of these
\* gap days after its predecessor's day.
MaxEdits == 10
MaxUsers == 3
LongGap == 40

History(n, r, u, k, gap) ==
    [i \in 1..n |->
        [revid     |-> i,
         timestamp |-> IF i <= k THEN 0 ELSE (i - k + gap) * TicksPerDay,
         user      |-> "User" \o ToString(((i - 1) % u) + 1),
         comment   |-> IF i <= r THEN "rv vandalism" ELSE "copyedit",
         size      |-> 100 + i]]

InitHistories ==
    /\ caller = "app"
    /\ pc = "fetched"
    /\ title = "Flat Earth"
    /\ params = [titles |-> "Flat Earth", rvcontinue |-> NoToken]
    /\ continue_token = NoToken
    /\ \E n \in 1..MaxEdits :
         \E r \in 0..n, u \in 1..Min2(n, MaxUsers), k \in 1..n, gap \in {0, LongGap} :
            /\ raw_df = History(n, r, u, k, gap)
            /\ all_revisions = raw_df
            /\ received = n
    /\ requests = 1
    /\ delays = 0
    /\ upstream = Upstream
    /\ parked = IdleRequest(Upstream)
    /\ exc = NoExc
    /\ df = <<>>
    /\ summary = EmptySummary
    /\ score_result = NoResult
    /\ ui = ""
    /\ stages = <<"fetch">>
    /\ JobAgentInit
    /\ AnalyzerInit

\* Histories by up to MaxAuthors authors: author k makes (k + 1) \div 2
\* revisions, so the counts are 1, 1, 2, 2, 3, 3, ...; the authors edit in
\* rounds, in the order of their numbers, one revision a day.
MaxAuthors == 12

RECURSIVE AuthorRounds(_, _)
AuthorRounds(j, u) ==
    IF 2 * j - 1 > u THEN <<>>
    ELSE [i \in 1..(u - 2 * j + 2) |-> 2 * j - 2 + i] \o AuthorRounds(j + 1, u)

AuthorsHistory(u) ==
    LET authors == AuthorRounds(1, u)
    IN [i \in 1..Len(authors) |->
           [revid     |-> i,
            timestamp |-> i * TicksPerDay,
            user      |-> "User" \o ToString(authors[i]),
            comment   |-> "copyedit",
            size      |-> 100 + i]]

InitAuthors ==
    /\ caller = "app"
    /\ pc = "fetched"
    /\ title = "Flat Earth"
    /\ params = [titles |-> "Flat Earth", rvcontinue |-> NoToken]
    /\ continue_token = NoToken
    /\ \E u \in 1..MaxAuthors :
          /\ raw_df = AuthorsHistory(u)
          /\ all_revisions = raw_df
          /\ received = Len(raw_df)
    /\ requests = 1
    /\ delays = 0
    /\ upstream = Upstream
    /\ parked = IdleRequest(Upstream)
    /\ exc = NoExc
    /\ df = <<>>
    /\ summary = EmptySummary
    /\ score_result = NoResult
    /\ ui = ""
    /\ stages = <<"fetch">>
    /\ JobAgentInit
    /\ AnalyzerInit

NextHistories == Enrich \/ Aggregate \/ Score \/ AppRender

SpecHistories == InitHistories /\ [][NextHistories]_vars

SpecAuthors == InitAuthors /\ [][NextHistories]_vars


\* ---------------------------------------------------------------- job agent
\* job-agent/agent.py: run_agent searches, tailors, applies and reports.
MaxRuns == 2
MaxApps == 2

\* job cards the scrapers can return: the second is the first one's job
\* found on another platform, the third shares the first one's URL, the last
\* one's link was not found on its card
Postings ==
    << [title |-> "Data Analyst", company |-> "Acme", url |-> "n/1", platform |-> "Naukri"],
       [title |-> "data analyst", company |-> "ACME", url |-> "i/9", platform |-> "Indeed"],
       [title |-> "Junior Data Analyst", company |-> "Acme", url |-> "n/1",
        platform |-> "Naukri"],
       [title |-> "SQL Analyst", company |-> "Initech", url |-> "n/2", platform |-> "Naukri"],
       [title |-> "Power BI Analyst", company |-> "Globex", url |-> "i/3",
        platform |-> "Indeed"],
       [title |-> "Data Analyst Intern", company |-> "Hooli", url |-> "",
        platform |-> "Internshala"] >>

\* what the scrapers of one run return, in the order search_jobs collects it
Scraped ==
    { <<>>,
      <<Postings[1], Postings[2]>>,
      <<Postings[1], Postings[3], Postings[4]>>,
      <<Postings[6], Postings[5], Postings[4]>> }

\* profile.get("avoid_companies", [])
AvoidCompanies == <<"Globex">>

\* outcomes of tailoring one job: score at or above the threshold, below it,
\* or an exception
TailorOutcomes == {"Ready to Apply", "Low Match", "Error"}

\* result.get("status") of fill_and_submit for a job that has a URL
FillStatuses == {"submitted", "captcha"}

\* job.get("status")
StatusOf(job) == IF "status" \in DOMAIN job THEN job.status ELSE "None"

\* job["status"] = status
SetStatus(job, status) == ("status" :> status) @@ job

\* search_jobs: the first n collected jobs, deduplicated by URL
RECURSIVE UniqueJobs(_, _)
UniqueJobs(all_jobs, n) ==
    IF n = 0 THEN <<>>
    ELSE LET job == all_jobs[n]
             unique_jobs == UniqueJobs(all_jobs, n - 1)
         IN IF job.url = "" \/ \A j \in 1..(n - 1) : all_jobs[j].url # job.url
            THEN Append(unique_jobs, job)
            ELSE unique_jobs

search_jobs(scraped) == UniqueJobs(scraped, Len(scraped))

\* Tracker.already_applied over the rows of applications.csv
already_applied(rows, url, company, role) ==
    \E i \in 1..Len(rows) :
        \/ url # "" /\ Strip(rows[i].url) = Strip(url)
        \/ /\ company # "" /\ role # ""
           /\ Lower(rows[i].company) = Lower(company)
           /\ Lower(rows[i].role) = Lower(role)

\* phase_1_search: the first n jobs found, without those already applied to
\* and those of avoided companies
RECURSIVE FilterJobs(_, _, _)
FilterJobs(all_jobs, rows, n) ==
    IF n = 0 THEN <<>>
    ELSE LET job == all_jobs[n]
             filtered == FilterJobs(all_jobs, rows, n - 1)
             avoid_companies == {Lower(AvoidCompanies[i]) : i \in 1..Len(AvoidCompanies)}
         IN IF already_applied(rows, job.url, job.company, job.title) THEN filtered
            ELSE IF Lower(job.company) \in avoid_companies THEN filtered
            ELSE Append(filtered, job)

\* profile.get("max_daily_applications", 50)
MAX_DAILY_APPLICATIONS == 50

\* the values of args.max: absent, or --max n
MaxArgs == {<<>>} \cup {<<n>> : n \in 0..MaxApps}

\* max_apps or profile.get("max_daily_applications", 50)
MaxCount(max_apps) ==
    IF max_apps = <<>> \/ max_apps[1] = 0 THEN MAX_DAILY_APPLICATIONS ELSE max_apps[1]

\* run_agent up to the end of phase_1_search: the scrapers return scraped,
\* the jobs that pass the filter replace the queue
Phase1Search(scraped, dry, max_apps) ==
    /\ agent_pc = "idle"
    /\ agent_runs < MaxRuns
    /\ agent_runs' = agent_runs + 1
    /\ dry_run' = dry
    /\ max_arg' = max_apps
    /\ max_count' = MaxCount(max_apps)
    /\ LET all_jobs == search_jobs(scraped)
       IN jobs_queue' = FilterJobs(all_jobs, applications, Len(all_jobs))
    /\ agent_pc' = "searched"
    /\ trace' = <<"search">>
    /\ UNCHANGED <<applications, ready_jobs, applied_this_session, filled, wikiVars, dbVars>>

\* phase_2_tailor: every job of the queue not yet processed gets its status
Phase2Tailor ==
    /\ agent_pc = "searched"
    /\ \E outcome \in [1..Len(jobs_queue) -> TailorOutcomes] :
          jobs_queue' =
              [i \in 1..Len(jobs_queue) |->
                  IF StatusOf(jobs_queue[i]) \in {"Ready to Apply", "Low Match"}
                  THEN jobs_queue[i]
                  ELSE SetStatus(jobs_queue[i], outcome[i])]
    /\ agent_pc' = "tailored"
    /\ trace' = Append(trace, "tailor")
    /\ UNCHANGED <<agent_runs, dry_run, max_arg, max_count, applications, ready_jobs,
                   applied_this_session, filled, wikiVars, dbVars>>

\* faulty variant: phase 3 runs whatever dry_run is
SkipsPhase3_never(dry) == FALSE

\* run_agent: "if not dry_run: phase_3_apply(...)"
SkipsPhase3(dry) == dry

\* run_agent with dry_run: phase 3 is skipped
DryRunSkip ==
    /\ agent_pc = "tailored"
    /\ SkipsPhase3(dry_run)
    /\ agent_pc' = "report"
    /\ UNCHANGED <<agent_runs, dry_run, max_arg, max_count, jobs_queue, applications,
                   ready_jobs, applied_this_session, filled, trace, wikiVars, dbVars>>

\* the indices below n of the jobs of queue that are "Ready to Apply"
RECURSIVE ReadyJobs(_, _)
ReadyJobs(queue, n) ==
    IF n = 0 THEN <<>>
    ELSE IF StatusOf(queue[n]) = "Ready to Apply"
         THEN Append(ReadyJobs(queue, n - 1), n)
         ELSE ReadyJobs(queue, n - 1)

\* phase_3_apply up to its loop
Phase3Start ==
    /\ agent_pc = "tailored"
    /\ ~SkipsPhase3(dry_run)
    /\ ready_jobs' = ReadyJobs(jobs_queue, Len(jobs_queue))
    /\ applied_this_session' = 0
    /\ agent_pc' = IF ready_jobs' = <<>> THEN "report" ELSE "applying"
    /\ trace' = Append(trace, "apply")
    /\ UNCHANGED <<agent_runs, dry_run, max_arg, max_count, jobs_queue, applications,
                   filled, wikiVars, dbVars>>

\* tracker.log(...): the row appended to applications.csv
LogRow(job, status) ==
    [company |-> job.company, role |-> job.title, platform |-> job.platform,
     status |-> status, url |-> job.url]

\* what fill_and_submit can return for job, and whether it opened a browser
\* context on the way: none without a URL; every opened context is closed,
\* by context.close() or by leaving the sync_playwright block, before the
\* function returns
FillOutcomes(job) ==
    IF job.url = "" THEN {[status |-> "skipped", opened |-> FALSE]}
    ELSE {[status |-> st, opened |-> TRUE] : st \in FillStatuses}

\* what one call of fill_and_submit and the tracker.log after it add to the
\* trace of the run
ApplyEvents(outcome) ==
    <<"fill">> \o (IF outcome.opened THEN <<"open", "close">> ELSE <<>>) \o <<"log">>

\* one iteration of the loop of phase_3_apply: fill_and_submit is invoked for
\* the job and returns, the application is logged, the queue saved
Phase3Apply(outcome) ==
    /\ agent_pc = "applying"
    /\ applied_this_session < Len(ready_jobs)
    /\ applied_this_session < max_count
    /\ LET index == ready_jobs[applied_this_session + 1]
           job == jobs_queue[index]
       IN /\ outcome \in FillOutcomes(job)
          /\ filled' = Append(filled, job)
          /\ applications' = Append(applications, LogRow(job, outcome.status))
          /\ jobs_queue' = [jobs_queue EXCEPT ![index] = SetStatus(job, outcome.status)]
    /\ applied_this_session' = applied_this_session + 1
    /\ trace' = trace \o ApplyEvents(outcome)
    /\ UNCHANGED <<agent_pc, agent_runs, dry_run, max_arg, max_count, ready_jobs,
                   wikiVars, dbVars>>

\* the loop ends: no ready job is left, or the session maximum is reached
Phase3End ==
    /\ agent_pc = "applying"
    /\ applied_this_session >= Len(ready_jobs) \/ applied_this_session >= max_count
    /\ agent_pc' = "report"
    /\ UNCHANGED <<agent_runs, dry_run, max_arg, max_count, jobs_queue, applications,
                   ready_jobs, applied_this_session, filled, trace, wikiVars, dbVars>>

\* print_final_report; the run is over, the two files stay
FinalReport ==
    /\ agent_pc = "report"
    /\ agent_pc' = "idle"
    /\ ready_jobs' = <<>>
    /\ applied_this_session' = 0
    /\ trace' = Append(trace, "report")
    /\ UNCHANGED <<agent_runs, dry_run, max_arg, max_count, jobs_queue, applications,
                   filled, wikiVars, dbVars>>

NextJobs ==
    \/ \E scraped \in Scraped, dry \in BOOLEAN, max_apps \in MaxArgs :
          Phase1Search(scraped, dry, max_apps)
    \/ Phase2Tailor
    \/ DryRunSkip
    \/ Phase3Start
    \/ \E st \in FillStatuses \cup {"skipped"}, opened \in BOOLEAN :
          Phase3Apply([status |-> st, opened |-> opened])
    \/ Phase3End
    \/ FinalReport

SpecJobs == Init /\ [][NextJobs]_vars

\* ---------------------------------------------------------------- analyzer
\* database-query-analyzer: the three endpoints of backend/api/router.py, each
\* request served by a worker thread, and get_engine / get_session of
\* backend/core/database.py. A step is the code between two points at which
\* another thread can run.
DbRequests == 3

\* settings.profiles
ConfiguredProfiles == {"dev", "staging", "prod"}

\* the profiles and queries requests come with
RequestProfiles == {"dev", "test"}
RequestQueries == {"", " ", "SELECT 1"}
Endpoints == {"analyze", "history", "index_advisor"}

SetHandler(h, r) == handlers' = [handlers EXCEPT ![h] = r]

\* the request fails with HTTPException(status_code=400)
Http400(r) == [r EXCEPT !.status = 400, !.pc = "done"]

\* a request arrives and a free worker thread starts its endpoint function
DbRequest(h, endpoint, profile, query) ==
    /\ handlers[h].pc = "idle"
    /\ served < DbRequests
    /\ served' = served + 1
    /\ SetHandler(h, [IdleHandler EXCEPT !.pc = "get_engine", !.endpoint = endpoint,
                                         !.profile = profile, !.query = query,
                                         !.request = served + 1])
    /\ UNCHANGED <<engines, created, query_history, wikiVars, jobVars>>

\* get_engine: "if profile not in engines", and for a profile that is not
\* cached the look-up in settings.profiles; the ValueError for an unknown
\* profile becomes a 400 in all three endpoints, no session exists then
EngineLookup(h) ==
    LET r == handlers[h]
    IN /\ r.pc = "get_engine"
       /\ SetHandler(h, IF r.profile \in DOMAIN engines
                        THEN [r EXCEPT !.pc = "return_engine"]
                        ELSE IF r.profile \notin ConfiguredProfiles
                        THEN Http400(r)
                        ELSE [r EXCEPT !.pc = "create_engine"])
       /\ UNCHANGED <<engines, created, query_history, served, wikiVars, jobVars>>

\* get_engine: engines[profile] = create_engine(...)
CreateEngine(h) ==
    LET r == handlers[h]
    IN /\ r.pc = "create_engine"
       /\ created' = Append(created, r.profile)
       /\ engines' = (r.profile :> Len(created) + 1) @@ engines
       /\ SetHandler(h, [r EXCEPT !.pc = "create_tables"])
       /\ UNCHANGED <<query_history, served, wikiVars, jobVars>>

\* get_engine: Base.metadata.create_all, whose failure is only logged
CreateTables(h) ==
    LET r == handlers[h]
    IN /\ r.pc = "create_tables"
       /\ SetHandler(h, [r EXCEPT !.pc = "return_engine"])
       /\ UNCHANGED <<engines, created, query_history, served, wikiVars, jobVars>>

\* get_engine: "return engines[profile]", and get_session: a new session
\* bound to that engine
OpenSession(h) ==
    LET r == handlers[h]
    IN /\ r.pc = "return_engine"
       /\ SetHandler(h, [r EXCEPT !.engine = engines[r.profile], !.session = "open",
                                  !.pc = IF r.endpoint = "analyze" THEN "check_query"
                                         ELSE "query"])
       /\ UNCHANGED <<engines, created, query_history, served, wikiVars, jobVars>>

\* analyze_query: "if not request.query or not request.query.strip()", which
\* raises outside the try statement whose finally closes the session
CheckQuery(h) ==
    LET r == handlers[h]
    IN /\ r.pc = "check_query"
       /\ SetHandler(h, IF r.query = "" \/ Strip(r.query) = ""
                        THEN Http400(r)
                        ELSE [r EXCEPT !.pc = "explain"])
       /\ UNCHANGED <<engines, created, query_history, served, wikiVars, jobVars>>

\* analyze_query: session.execute of the EXPLAIN statement, then
\* session.add(history_item); ok is whether the statement ran
Explain(h, ok) ==
    LET r == handlers[h]
    IN /\ r.pc = "explain"
       /\ SetHandler(h, IF ok THEN [r EXCEPT !.pending = TRUE, !.pc = "commit"]
                        ELSE [r EXCEPT !.pc = "rollback"])
       /\ UNCHANGED <<engines, created, query_history, served, wikiVars, jobVars>>

\* analyze_query: session.commit(); ok is whether it went through
Commit(h, ok) ==
    LET r == handlers[h]
    IN /\ r.pc = "commit"
       /\ IF ok
          THEN /\ query_history' = Append(query_history,
                       [profile |-> r.profile, query_text |-> r.query, request |-> r.request])
               /\ SetHandler(h, [r EXCEPT !.pending = FALSE, !.status = 200, !.pc = "close"])
          ELSE /\ SetHandler(h, [r EXCEPT !.pc = "rollback"])
               /\ UNCHANGED query_history
       /\ UNCHANGED <<engines, created, served, wikiVars, jobVars>>

\* analyze_query: "except Exception: session.rollback()" and the 400
Rollback(h) ==
    LET r == handlers[h]
    IN /\ r.pc = "rollback"
       /\ SetHandler(h, [r EXCEPT !.pending = FALSE, !.rolled_back = TRUE, !.status = 400,
                                  !.pc = "close"])
       /\ UNCHANGED <<engines, created, query_history, served, wikiVars, jobVars>>

\* get_query_history and get_index_recommendations: the query of the table;
\* ok is whether it ran, a failure becomes a 400
RunQuery(h, ok) ==
    LET r == handlers[h]
    IN /\ r.pc = "query"
       /\ SetHandler(h, [r EXCEPT !.status = IF ok THEN 200 ELSE 400, !.pc = "close"])
       /\ UNCHANGED <<engines, created, query_history, served, wikiVars, jobVars>>

\* the finally clause: session.close()
Close(h) ==
    LET r == handlers[h]
    IN /\ r.pc = "close"
       /\ SetHandler(h, [r EXCEPT !.session = "closed", !.pc = "done"])
       /\ UNCHANGED <<engines, created, query_history, served, wikiVars, jobVars>>

\* the response is sent and the worker thread is free again
Respond(h) ==
    /\ handlers[h].pc = "done"
    /\ SetHandler(h, IdleHandler)
    /\ UNCHANGED <<engines, created, query_history, served, wikiVars, jobVars>>

NextAnalyzer ==
    \E h \in Handlers :
        \/ \E endpoint \in Endpoints, profile \in RequestProfiles, query \in RequestQueries :
              DbRequest(h, endpoint, profile, query)
        \/ EngineLookup(h)
        \/ CreateEngine(h)
        \/ CreateTables(h)
        \/ OpenSession(h)
        \/ CheckQuery(h)
        \/ \E ok \in BOOLEAN : Explain(h, ok)
        \/ \E ok \in BOOLEAN : Commit(h, ok)
        \/ Rollback(h)
        \/ \E ok \in BOOLEAN : RunQuery(h, ok)
        \/ Close(h)
        \/ Respond(h)

SpecAnalyzer == Init /\ [][NextAnalyzer]_vars

\* ---------------------------------------------------------------- properties
Scored == pc \in {"scored", "done"}
Enriched == pc \in {"enriched", "aggregated", "scored", "done"}
FetchSites == {"empty_title", "missing", "api_error"} \cup TransportFailures
PageFailureSites == {"missing", "api_error"} \cup TransportFailures
HasPrefix(s, prefix) == Len(s) >= Len(prefix) /\ SubSeq(s, 1, Len(prefix)) = prefix

\* C1: for every non-empty enriched sequence and its summary, the composite
\* score and each of the three component scores lie in [0,100] (0..1000
\* tenths).
C1_ScoresInRange ==
    (Scored /\ df # <<>>) =>
        /\ summary.total_reverts \in 0..summary.total_edits
        /\ summary.unique_editors \in 1..summary.total_edits
        /\ score_result.score \in 0..1000
        /\ score_result.revert_score \in 0..1000
        /\ score_result.editor_score \in 0..1000
        /\ score_result.spike_score \in 0..1000

\* C1 witness: a scored history whose revert rate and spike fraction both lie
\* beyond their ceilings, so that both components are capped
C1_Witness ==
    /\ pc = "scored"
    /\ summary.total_reverts * 100 > RevertCeiling * summary.total_edits
    /\ summary.spike_days * 100 > SpikeCeiling * Max2(SpanDays(df), 1)
    /\ score_result.revert_score = 1000
    /\ score_result.spike_score = 1000
    /\ score_result.score < 1000

\* C2: the label is decided by the rounded score alone, with lower-inclusive
\* tiers: below 25 Low, from 25 below 50 Medium, from 50 below 75 High, from
\* 75 Extreme.
C2_LabelTiers ==
    Scored =>
        LET sc == score_result.score
            label == score_result.label
        IN /\ label \in {"Low", "Medium", "High", "Extreme"}
           /\ (label = "Low") <=> (sc < 250)
           /\ (label = "Medium") <=> (250 <= sc /\ sc < 500)
           /\ (label = "High") <=> (500 <= sc /\ sc < 750)
           /\ (label = "Extreme") <=> (750 <= sc)

\* C2 witness: a history scored exactly 25.0, the lower edge of Medium
C2_Witness ==
    /\ pc = "scored"
    /\ score_result.score = 250
    /\ score_result.label = "Medium"

\* C3: the stages of a request start in the order fetch, enrich, aggregate,
\* score, then the caller's output, each stage's result existing only once
\* the stage has run; after a failed fetch no stage but fetch has run, no
\* result exists and the caller shows the error only.
C3_StagesInOrder ==
    LET order == <<"fetch", "enrich", "aggregate", "score",
                   IF caller = "app" THEN "render" ELSE "print">>
        failed == exc.site \in FetchSites
    IN /\ \E n \in 0..Len(order) : stages = SubSeq(order, 1, n)
       /\ "enrich" \notin Range(stages) => df = <<>>
       /\ "aggregate" \notin Range(stages) => summary = EmptySummary
       /\ "score" \notin Range(stages) => score_result = NoResult
       /\ "enrich" \in Range(stages) => ~failed
       /\ failed =>
            /\ stages = <<"fetch">>
            /\ pc \in {"stopped", "crashed"}
            /\ raw_df = <<>>
            /\ caller = "app" => HasPrefix(ui, "Input error: ") \/ HasPrefix(ui, "API error: ")

\* C3 witness: an app request whose fetch failed after pages had arrived
C3_Witness ==
    /\ caller = "app"
    /\ pc = "stopped"
    /\ exc.site = "Timeout"
    /\ all_revisions # <<>>
    /\ stages = <<"fetch">>

C6_UpstreamDistinctFromTransport ==
    exc.site = "api_error" => \A k \in TransportFailures : exc.type # ExcTypeAt(k)

\* C7: a fetch called with an empty or whitespace-only title has raised the
\* invalid-input error and has issued no page request.
C7_BlankTitleNeverRequests ==
    (stages # <<>> /\ \A i \in 1..Len(title) : CharAt(title, i) \in {" ", "\t", "\n"}) =>
        /\ requests = 0
        /\ received = 0
        /\ exc.type = "ValueError"
        /\ exc.site = "empty_title"
        /\ pc \in {"stopped", "crashed"}

\* C7 witness: the fetch was called with a title of blanks
C7_Witness ==
    /\ title = "  "
    /\ stages = <<"fetch">>
    /\ exc.site = "empty_title"

\* C8: the loop goes on to a further request only when the last response
\* returned a continuation token and fewer than MAX_REVISIONS records are
\* accumulated; the accumulated records are all those received, cut to
\* MAX_REVISIONS at the cap without an error, and the returned sequence holds
\* at most MAX_REVISIONS records.
C8_PaginationStops ==
    /\ (pc = "request" /\ requests > 0) =>
          /\ continue_token # NoToken
          /\ received < MAX_REVISIONS
    /\ Len(all_revisions) = Min2(received, MAX_REVISIONS)
    /\ Len(raw_df) <= MAX_REVISIONS
    /\ (pc = "fetched" /\ received >= MAX_REVISIONS) => exc = NoExc

\* C8 witness: a fetch that received more than MAX_REVISIONS records and
\* returned MAX_REVISIONS of them
C8_Witness ==
    /\ pc = "fetched"
    /\ received > MAX_REVISIONS
    /\ Len(all_revisions) = MAX_REVISIONS
    /\ Len(raw_df) = MAX_REVISIONS

\* C9: the returned sequence is in ascending order of timestamp.
C9_OldestFirst ==
    \A i, j \in 1..Len(raw_df) : i < j => raw_df[i].timestamp <= raw_df[j].timestamp

\* C9 witness: three records returned that arrived newest first
C9_Witness ==
    /\ pc = "fetched"
    /\ Len(raw_df) = 3
    /\ Len(all_revisions) = 3
    /\ \A i \in 1..3 : "timestamp" \in DOMAIN all_revisions[i]
    /\ all_revisions[1].timestamp > all_revisions[2].timestamp
    /\ all_revisions[2].timestamp > all_revisions[3].timestamp

\* C10: the enriched sequence has the length and the order of the fetched
\* one: record i is record i of the input with the derived flags added.
C10_EnrichKeepsRows ==
    (Enriched /\ raw_df # <<>>) =>
        /\ Len(df) = Len(raw_df)
        /\ \A i \in 1..Len(raw_df) :
              /\ \A f \in {"revid", "timestamp", "user", "comment", "size"} :
                    df[i][f] = raw_df[i][f]
              /\ DOMAIN df[i] =
                    {"revid", "timestamp", "user", "comment", "size", "is_revert",
                     "is_bot", "is_spike_day", "nlp_hostility", "nlp_dispute",
                     "nlp_revert_lang", "nlp_protection", "nlp_any_conflict",
                     "size_delta"}

\* C10 witness: three fetched records enriched
C10_Witness ==
    /\ pc = "enriched"
    /\ Len(raw_df) = 3
    /\ Len(df) = 3
    /\ raw_df[1].revid # raw_df[2].revid

Aggregated == pc \in {"aggregated", "scored", "done"}
CountFields ==
    {"total_edits", "total_reverts", "total_bots", "total_humans",
     "unique_editors", "spike_days", "nlp_conflicts"}

\* C11: the summary of an empty enriched sequence carries every count
\* (total, reverts, bots, humans, unique authors, spike days, conflicts) with
\* the value zero, and a caller that reads the total count gets 0 instead of
\* failing.
C11_EmptySummaryHasZeroCounts ==
    /\ (Aggregated /\ df = <<>>) =>
          /\ CountFields \subseteq DOMAIN summary
          /\ \A f \in CountFields : summary[f] = 0
    /\ exc.type # "KeyError"

ScoreComputed == \E i \in DOMAIN stages : stages[i] = "score"

\* C12: when there is no revision (empty enriched sequence or empty summary)
\* the score is the fixed result: composite 0, the three components 0, label
\* "Low".
C12_NoRevisionsScoreZero ==
    (ScoreComputed /\ (df = <<>> \/ summary = EmptySummary)) =>
        /\ score_result.score = 0
        /\ score_result.revert_score = 0
        /\ score_result.editor_score = 0
        /\ score_result.spike_score = 0
        /\ score_result.label = "Low"

\* C12 witness: the script scored a fetch that returned no revision
C12_Witness ==
    /\ pc = "scored"
    /\ caller = "smoke"
    /\ requests = 1
    /\ df = <<>>
    /\ summary = EmptySummary
    /\ score_result = ZeroScore

\* C13: the summary of every enriched sequence, the empty one included, has
\* a revert_rate; it lies in [0,100] (0..10000 hundredths) and is 0 whenever
\* no revision is a revert, also when there is no revision at all.
C13_RevertRateDefined ==
    Aggregated =>
        /\ "revert_rate" \in DOMAIN summary
        /\ summary.revert_rate \in 0..10000
        /\ ColumnSum(df, "is_revert") = 0 => summary.revert_rate = 0

\* index of the first revision of author u in d
FirstEdit(d, u) == Min({i \in 1..Len(d) : d[i].user = u})

\* top_editors lists at most 10 distinct authors with their counts, by count
\* descending, and no author left out has more revisions than a listed one
TopEditorsRanked ==
    LET top == summary.top_editors
        users == {df[i].user : i \in 1..Len(df)}
        listed == {top[i][1] : i \in 1..Len(top)}
    IN /\ Len(top) = Min2(Cardinality(users), 10)
       /\ listed \subseteq users
       /\ Cardinality(listed) = Len(top)
       /\ \A i \in 1..Len(top) : top[i][2] = EditsOf(df, top[i][1])
       /\ \A i \in 1..(Len(top) - 1) : top[i][2] >= top[i + 1][2]
       /\ \A u \in users \ listed : \A i \in 1..Len(top) : EditsOf(df, u) <= top[i][2]

C15_SpikeDaysCountsDays ==
    (Aggregated /\ df # <<>>) =>
        /\ summary.spike_days = Cardinality(SpikeDates(df))
        /\ summary.spike_days
              <= Cardinality({DateOf(df[i].timestamp) : i \in 1..Len(df)})

\* the score of the scored history with one count of its summary replaced
ScoreWith(field, x) == compute_controversy_score(df, [summary EXCEPT ![field] = x])
TierRank(label) == CHOOSE i \in 1..4 : <<"Low", "Medium", "High", "Extreme">>[i] = label
RawInputFields == {"total_reverts", "unique_editors", "spike_days"}

\* C16: the composite score is non-decreasing in each of the three raw
\* inputs (revert rate, editor density, spike fraction) with the other two
\* fixed: raising one of them never lowers the score nor moves the label to a
\* lower tier.
C16_ScoreMonotonic ==
    (pc = "scored" /\ df # <<>>) =>
        \A f \in RawInputFields : \A x \in 0..(Len(df) - 1) :
            LET lower == ScoreWith(f, x)
                higher == ScoreWith(f, x + 1)
            IN /\ lower.score <= higher.score
               /\ TierRank(lower.label) <= TierRank(higher.label)
               /\ x = summary[f] => lower = score_result

\* C16 witness: a scored history of which one more revert raises the score
\* into the next tier
C16_Witness ==
    /\ pc = "scored"
    /\ summary.total_reverts < summary.total_edits
    /\ ScoreWith("total_reverts", summary.total_reverts + 1).score > score_result.score
    /\ TierRank(ScoreWith("total_reverts", summary.total_reverts + 1).label)
          > TierRank(score_result.label)

BotAsWord(s) ==
    \E i \in 1..(Len(s) - 2) :
        /\ SubSeq(s, i, i + 2) = "bot"
        /\ i > 1 => ~IsWordChar(CharAt(s, i - 1))
        /\ i + 2 < Len(s) => ~IsWordChar(CharAt(s, i + 3))

\* C18: a revision is flagged as a bot exactly when its lowercased author
\* contains "bot" with a word boundary immediately before the 'b' and
\* immediately after the 't'; the author "Robotics_Fan" is not flagged.
C18_BotIsWholeWord ==
    pc = "enriched" => \A i \in 1..Len(df) :
        /\ df[i].is_bot <=> BotAsWord(Lower(df[i].user))
        /\ df[i].user = "Robotics_Fan" => ~df[i].is_bot

\* C18 witness: "Robotics_Fan" enriched unflagged next to "Citation bot"
\* flagged
C18_Witness ==
    /\ pc = "enriched"
    /\ \E i, j \in 1..Len(df) :
          /\ df[i].user = "Robotics_Fan" /\ ~df[i].is_bot
          /\ df[j].user = "Citation bot" /\ df[j].is_bot

\* the comment, in lower case, contains one of the revert keywords
HasRevertTerm(comment) ==
    LET lowered == Lower(comment)
    IN \E k \in 1..Len(REVERT_KEYWORDS) :
          \E i \in 1..(Len(lowered) - Len(REVERT_KEYWORDS[k]) + 1) :
              SubSeq(lowered, i, i + Len(REVERT_KEYWORDS[k]) - 1) = REVERT_KEYWORDS[k]

\* C19: every revision whose comment contains a revert keyword, in any
\* letter case and as a plain substring, has is_revert, nlp_revert_lang and
\* nlp_any_conflict set, as "Reverted edits by X (vandalism)" has; a revision
\* whose comment contains none has is_revert unset.
C19_RevertKeywordsFlagged ==
    pc = "enriched" => \A i \in 1..Len(df) :
        /\ HasRevertTerm(df[i].comment) =>
              df[i].is_revert /\ df[i].nlp_revert_lang /\ df[i].nlp_any_conflict
        /\ ~HasRevertTerm(df[i].comment) => ~df[i].is_revert
        /\ df[i].comment = "Reverted edits by X (vandalism)" =>
              df[i].is_revert /\ df[i].nlp_revert_lang /\ df[i].nlp_any_conflict

\* C19 witness: enriched together, a comment whose only revert keyword is
\* capitalised, the vandalism comment, and a comment without any keyword
C19_Witness ==
    /\ pc = "enriched"
    /\ \E i, j, k \in 1..Len(df) :
          /\ df[i].comment = "Undid revision 7: POV dispute" /\ df[i].is_revert
          /\ df[j].comment = "Reverted edits by X (vandalism)" /\ df[j].nlp_revert_lang
          /\ df[k].comment = "fix typo" /\ ~df[k].is_revert

\* two jobs are the same job: same URL, or same company and role whatever
\* the letter case
SameJob(a, b) ==
    \/ a.url = b.url
    \/ Lower(a.company) = Lower(b.company) /\ Lower(a.title) = Lower(b.title)

\* C20: across the runs of the agent, fill_and_submit is never invoked for a
\* job that has the URL, or the company and role (case-insensitive), of a job
\* it was invoked for before, in this run or an earlier one.
C20_NeverSameJobTwice ==
    \A i, j \in 1..Len(filled) : i < j => ~SameJob(filled[i], filled[j])

\* C21: the row of a job is written to applications.csv before the browser
\* context opened for that job is closed: in the trace of a run no "close"
\* comes before the "log" of the same job.
C21_LoggedBeforeTabClosed ==
    \A i \in 1..Len(trace) :
        trace[i] = "close" =>
            \E j \in 1..(i - 1) :
                /\ trace[j] = "log"
                /\ \E k \in 1..(j - 1) :
                      /\ trace[k] = "open"
                      /\ \A m \in (k + 1)..(i - 1) : trace[m] # "open"

\* the phases of a run with --dry-run, in the order run_agent calls them
DryRunTrace == <<"search", "tailor", "report">>

FillCount == Cardinality({i \in 1..Len(trace) : trace[i] = "fill"})

\* C23: in a run with --max N phase 3 invokes fill_and_submit at most N
\* times, whatever the outcomes, and only for queue entries whose status is
\* "Ready to Apply".
C23_AtMostMaxApplications ==
    /\ max_arg # <<>> => FillCount <= max_arg[1]
    /\ \A i \in 1..Len(filled) : StatusOf(filled[i]) = "Ready to Apply"

\* C27: within one fetch one delay is taken between two consecutive page
\* requests, none before the first request and none after the last response:
\* while the loop is about to send a further request the delays taken equal
\* the requests sent, and once the fetch is over they are one fewer.
C27_OneDelayBetweenRequests ==
    /\ requests = 0 => delays = 0
    /\ (requests > 0 /\ pc = "request") => delays = requests
    /\ (requests > 0 /\ pc # "request") => delays = requests - 1

\* a fetch of three pages has returned
C27_Witness == pc = "fetched" /\ requests = 3 /\ delays = 2

\* C28: when every page that carries a continuation token carries at least
\* one revision, a fetch issues at most MAX_REVISIONS page requests, and
\* every request after the first carries the continuation token of the
\* response before it.
C28_BoundedPagination ==
    [][/\ ~upstream.empty_pages => requests' <= MAX_REVISIONS
       /\ (requests' = requests + 1 /\ requests >= 1) =>
              /\ continue_token # NoToken
              /\ params'.rvcontinue = continue_token]_vars

\* a fetch of MAX_REVISIONS pages of one revision each has returned at the cap
C28_Witness ==
    /\ ~upstream.empty_pages
    /\ pc = "fetched"
    /\ requests = MAX_REVISIONS
    /\ received = MAX_REVISIONS
    /\ params.rvcontinue # NoToken

\* the sum of the first n size_deltas of d
RECURSIVE SumDeltas(_, _)
SumDeltas(d, n) == IF n = 0 THEN 0 ELSE SumDeltas(d, n - 1) + d[n].size_delta

\* the calendar days from the first date of the history to its last
WholeSpanDays(d) ==
    LET dates == {DateOf(d[i].timestamp) : i \in 1..Len(d)}
    IN Max(dates) - Min(dates) + 1

RevisionsOn(d, dt) == Cardinality({i \in 1..Len(d) : DateOf(d[i].timestamp) = dt})

\* C25: a revision is flagged is_spike_day exactly when the number of
\* revisions on its calendar date is at least SPIKE_MULTIPLIER times the mean
\* number of revisions per day over the whole span of the history, i.e. the
\* revisions divided by the days from the first date to the last; revisions
\* of one date carry the same flag.
C25_SpikeIsThriceSpanMean ==
    (Enriched /\ df # <<>>) =>
        /\ \A i \in 1..Len(df) :
              df[i].is_spike_day <=>
                  RevisionsOn(df, DateOf(df[i].timestamp)) * WholeSpanDays(df)
                      >= SPIKE_MULTIPLIER * Len(df)
        /\ \A i, j \in 1..Len(df) :
              DateOf(df[i].timestamp) = DateOf(df[j].timestamp) =>
                  df[i].is_spike_day = df[j].is_spike_day

\* C26: the first revision's size_delta is 0, every later one's is its size
\* minus the size of the revision before it, so the deltas of a sequence sum
\* to the last size minus the first.
C26_SizeDeltaIsDifference ==
    (pc = "enriched" /\ df # <<>>) =>
        /\ df[1].size_delta = 0
        /\ \A i \in 2..Len(df) : df[i].size_delta = df[i].size - df[i - 1].size
        /\ SumDeltas(df, Len(df)) = df[Len(df)].size - df[1].size

\* three revisions of different sizes enriched, the article shrinking at the
\* second
C26_Witness ==
    /\ pc = "enriched"
    /\ Len(df) = 3
    /\ df[2].size_delta < 0
    /\ df[3].size_delta > 0

\* C29: when a request is over, the session it opened is closed, whatever
\* the endpoint and whether it succeeded or failed; a failed analyze request
\* that reached the database was rolled back, and no row of a failed request
\* is in the query_history table.
C29_SessionsClosed ==
    \A h \in Handlers :
        LET r == handlers[h]
        IN r.pc = "done" =>
              /\ r.session \in {"none", "closed"}
              /\ ~r.pending
              /\ r.status = 400 =>
                    \A i \in 1..Len(query_history) : query_history[i].request # r.request

\* C30: create_engine runs at most once per profile, whatever the
\* interleaving of the requests, and every session of a profile is bound to
\* the one engine in the cache; an unknown profile never enters the cache.
C30_OneEnginePerProfile ==
    /\ \A i, j \in 1..Len(created) : created[i] = created[j] => i = j
    /\ \A h \in Handlers :
          handlers[h].engine # 0 => handlers[h].engine = engines[handlers[h].profile]
    /\ DOMAIN engines \subseteq ConfiguredProfiles

\* what a request r holds is its own: the revisions of its article, as many
\* as its responses delivered up to the cap, and at each stage the value the
\* stage computes from the request's value of the stage before (the enriched
\* rows are compared in full when they are made, by their revisions later)
OwnResult(r) ==
    /\ r.pc # "idle" => r.stages # <<>> /\ r.stages[1] = "fetch"
    /\ r.pc \in {"request", "fetched"} => r.params.titles = Strip(r.title)
    /\ Range(r.all_revisions) \subseteq r.upstream.pool
    /\ Len(r.all_revisions) = Min2(r.received, MAX_REVISIONS)
    /\ r.pc \in {"fetched", "enriched", "aggregated", "scored", "done"} =>
          r.raw_df \in DataFrames(r.all_revisions)
    /\ r.pc = "enriched" => r.df = process_revisions(r.raw_df)
    /\ r.pc \in {"aggregated", "scored", "done"} =>
          [i \in 1..Len(r.df) |-> r.df[i].revid] = [i \in 1..Len(r.raw_df) |-> r.raw_df[i].revid]
    /\ r.pc \in {"aggregated", "scored", "done"} => r.summary \in compute_summary(r.df)
    /\ r.pc \in {"scored", "done"} =>
          r.score_result = compute_controversy_score(r.df, r.summary)

\* C24: of two analysis requests for different titles whose steps interleave
\* in any order, each holds at every moment only what its own title and its
\* own responses determine, so its result is the one of running it alone.
C24_RequestsIndependent == OwnResult(RequestState) /\ OwnResult(parked)

\* one request has been scored while the other is in the middle of its
\* fetch, each holding a revision of its article
C24_Witness ==
    /\ pc = "scored"
    /\ df # <<>>
    /\ parked.pc = "request"
    /\ parked.requests = 1
    /\ parked.all_revisions # <<>>
    /\ Strip(parked.title) # Strip(title)

====
